---- MODULE Spec2Model ----
(***************************************************************************)
(* App Graph: graph construction, layout hand-off and path highlighting.   *)
(*                                                                         *)
(* The repository holds three revisions of the App component:              *)
(*   variant "cases"  - src/unnamed/part_000: buildGraph(cases: TestCase[])*)
(*   variant "entry"  - src/unnamed/part_001: buildGraph(graph: AppGraph)  *)
(*                      with metadata.entryPoint start-node resolution     *)
(*   variant "app"    - src/src/App.tsx: buildGraph(graph: AppGraph),      *)
(*                      buildHighlightSet and the highlight overlay        *)
(*                                                                         *)
(* A JavaScript Map is a sequence of values with pairwise distinct keys    *)
(* (Map iterates in insertion order; set() on a present key keeps the      *)
(* key's position).  A nullable value is a sequence of length 0 or 1.      *)
(* Node records keep id, className and position; data.label is display     *)
(* text no operation reads back and is left out.                           *)
(***************************************************************************)
EXTENDS Naturals, Integers, Sequences, FiniteSets, TLC

VARIABLES
    variant,          \* which revision of the component is mounted
    cases,            \* part_000: mockCases, each trace a sequence of step pages
    graph,            \* part_001 / App.tsx: mockGraph, [nodes, edges]
    pc,               \* "load" before the first render, "built" after it
    baseNodes,        \* useMemo(() => buildGraph(...)).nodes
    baseEdges,        \* useMemo(() => buildGraph(...)).edges
    selectedNodeId,   \* useState<string | null>
    highlightedSuite, \* useState<RelatedTestSuite | null>
    nodes,            \* nodes handed to ReactFlow
    edges             \* edges handed to ReactFlow

vars == <<variant, cases, graph, pc, baseNodes, baseEdges,
          selectedNodeId, highlightedSuite, nodes, edges>>

----------------------------------------------------------------------------
(* Bounds of the model. *)

MaxCases == 2
MaxSteps == 2
MaxNodes == 2
MaxEdges == 2

(* Input alphabets.  "a->a" is an id that itself contains the separator;   *)
(* "" is the empty id.                                                     *)
Pages == {"a", "b", "a->a"}
EntryIds == {"a", "b"}
EdgeLabels == {"x", "y"}
AppIds == {"", "a", "a->a"}

BoundedSeq(S, n) == UNION {[1..k -> S] : k \in 0..n}

Null == <<>>
Some(v) == <<v>>

----------------------------------------------------------------------------
(* Program constants. *)

nodeWidth == 180
nodeHeight == 48
nodesep == 32
ranksep == 48

StartClass == "rounded-xl border border-emerald-300 bg-emerald-500/20 text-emerald-100 shadow-lg"
PlainClass == "rounded-xl border border-slate-700 bg-slate-900/80 text-slate-100 shadow-md"
RingClass == "ring-2 ring-sky-400 ring-offset-2 ring-offset-slate-950"
BaseStroke == "#38bdf8"
DimStroke == "#334155"

----------------------------------------------------------------------------
(* Map helpers. *)

MapHas(map, key) == \E i \in DOMAIN map : map[i].id = key

MapSet(map, value) ==
    IF MapHas(map, value.id)
    THEN [i \in DOMAIN map |-> IF map[i].id = value.id THEN value ELSE map[i]]
    ELSE Append(map, value)

(* `${source}->${target}` *)
edgeId(source, target) == source \o "->" \o target

----------------------------------------------------------------------------
(* Layout.  dagre is an external library; its result is modelled from the  *)
(* layered-layout description: longest-path rank from the source nodes,    *)
(* insertion order within a rank, fixed gaps, centre coordinates.          *)

Max(S) == CHOOSE m \in S : \A n \in S : n <= m

GraphIds(nodeSeq, edgeSeq) ==
    {nodeSeq[i].id : i \in DOMAIN nodeSeq}
        \cup {edgeSeq[i].source : i \in DOMAIN edgeSeq}
        \cup {edgeSeq[i].target : i \in DOMAIN edgeSeq}

RECURSIVE LongestPath(_, _, _)
LongestPath(v, edgeSeq, k) ==
    LET preds == {edgeSeq[i].source :
                    i \in {j \in DOMAIN edgeSeq :
                             edgeSeq[j].target = v /\ edgeSeq[j].source # v}}
    IN  IF k = 0 \/ preds = {}
        THEN 0
        ELSE Max({LongestPath(u, edgeSeq, k - 1) + 1 : u \in preds})

dagreRank(nodeSeq, edgeSeq, v) ==
    LongestPath(v, edgeSeq, Cardinality(GraphIds(nodeSeq, edgeSeq)) - 1)

dagreOrder(nodeSeq, edgeSeq, i) ==
    Cardinality({j \in 1..(i - 1) :
                   /\ nodeSeq[j].id # nodeSeq[i].id
                   /\ dagreRank(nodeSeq, edgeSeq, nodeSeq[j].id)
                        = dagreRank(nodeSeq, edgeSeq, nodeSeq[i].id)})

dagreLayout(nodeSeq, edgeSeq) ==
    [i \in DOMAIN nodeSeq |->
        [x |-> dagreRank(nodeSeq, edgeSeq, nodeSeq[i].id) * (nodeWidth + ranksep)
                 + nodeWidth \div 2,
         y |-> dagreOrder(nodeSeq, edgeSeq, i) * (nodeHeight + nodesep)
                 + nodeHeight \div 2]]

createLayoutTopDown(nodeSeq, edgeSeq) ==
    LET centre == dagreLayout(nodeSeq, edgeSeq)
    IN  [i \in DOMAIN nodeSeq |->
            [nodeSeq[i] EXCEPT !.position =
                [x |-> centre[i].y - nodeWidth \div 2,
                 y |-> centre[i].x - nodeHeight \div 2]]]

createLayoutCentre(nodeSeq, edgeSeq) ==
    LET centre == dagreLayout(nodeSeq, edgeSeq)
    IN  [i \in DOMAIN nodeSeq |-> [nodeSeq[i] EXCEPT !.position = centre[i]]]

createLayout(nodeSeq, edgeSeq) ==
    LET centre == dagreLayout(nodeSeq, edgeSeq)
    IN  [i \in DOMAIN nodeSeq |->
            [nodeSeq[i] EXCEPT !.position =
                [x |-> centre[i].x - nodeWidth \div 2,
                 y |-> centre[i].y - nodeHeight \div 2]]]

----------------------------------------------------------------------------
(* part_000: buildGraph(cases).  A step is modelled by its page; the       *)
(* builder reads no other field of a step.                                 *)

PageNode(page, startPage) ==
    [id |-> page,
     position |-> [x |-> 0, y |-> 0],
     className |-> IF startPage = Some(page) THEN StartClass ELSE PlainClass]

CasesEdge(page, nextPage) ==
    [id |-> edgeId(page, nextPage),
     source |-> page,
     target |-> nextPage,
     animated |-> TRUE,
     style |-> [stroke |-> BaseStroke]]

CasesSetEdgeTwice(edgeMap, page, nextPage) ==
    Append(edgeMap, CasesEdge(page, nextPage))

CasesSetEdge(edgeMap, page, nextPage) ==
    IF ~MapHas(edgeMap, edgeId(page, nextPage))
    THEN Append(edgeMap, CasesEdge(page, nextPage))
    ELSE edgeMap

CasesLinksAnyStep(steps, index) == index + 1 <= Len(steps)

CasesLinks(steps, index) ==
    index + 1 <= Len(steps) /\ steps[index + 1] # steps[index]

RECURSIVE CasesSteps(_, _, _, _)
CasesSteps(acc, steps, index, startPage) ==
    IF index > Len(steps)
    THEN acc
    ELSE LET page == steps[index]
             pages1 == IF ~MapHas(acc.pages, page)
                       THEN Append(acc.pages, PageNode(page, startPage))
                       ELSE acc.pages
             edgeMap1 == IF CasesLinks(steps, index)
                         THEN CasesSetEdge(acc.edgeMap, page, steps[index + 1])
                         ELSE acc.edgeMap
         IN  CasesSteps([pages |-> pages1, edgeMap |-> edgeMap1],
                        steps, index + 1, startPage)

RECURSIVE CasesEach(_, _, _, _)
CasesEach(acc, cs, c, startPage) ==
    IF c > Len(cs)
    THEN acc
    ELSE CasesEach(CasesSteps(acc, cs[c], 1, startPage), cs, c + 1, startPage)

(* cases[0]?.steps[0]?.page *)
CasesStartPage(cs) ==
    IF Len(cs) >= 1 /\ Len(cs[1]) >= 1 THEN Some(cs[1][1]) ELSE Null

buildGraphCases(cs) ==
    LET maps == CasesEach([pages |-> <<>>, edgeMap |-> <<>>], cs, 1,
                          CasesStartPage(cs))
    IN  [nodes |-> createLayout(maps.pages, maps.edgeMap),
         edges |-> maps.edgeMap]

----------------------------------------------------------------------------
(* part_001: buildGraph(graph) with entry-point start-node resolution.     *)
(* An input node is [id, entryPoint]; entryPoint stands for the truthiness *)
(* of node.metadata.entryPoint.  An input edge is [source, target, label]. *)

(* graph.nodes.find((node) => node.metadata.entryPoint)?.id *)
EntryFind(nodeSeq) ==
    LET hits == {i \in DOMAIN nodeSeq : nodeSeq[i].entryPoint}
    IN  IF hits = {}
        THEN Null
        ELSE Some(nodeSeq[CHOOSE i \in hits : \A j \in hits : i <= j].id)

FirstNodeId(nodeSeq) ==
    IF Len(nodeSeq) >= 1 THEN Some(nodeSeq[1].id) ELSE Null

EntryStartNodeFirstOnly(nodeSeq) == FirstNodeId(nodeSeq)

(* entryNode ?? graph.nodes[0]?.id *)
EntryStartNode(nodeSeq) ==
    IF EntryFind(nodeSeq) # Null THEN EntryFind(nodeSeq) ELSE FirstNodeId(nodeSeq)

GraphNode(id, startNode) ==
    [id |-> id,
     position |-> [x |-> 0, y |-> 0],
     className |-> IF startNode = Some(id) THEN StartClass ELSE PlainClass]

RECURSIVE SetNodes(_, _, _, _)
SetNodes(nodeMap, nodeSeq, i, startNode) ==
    IF i > Len(nodeSeq)
    THEN nodeMap
    ELSE SetNodes(MapSet(nodeMap, GraphNode(nodeSeq[i].id, startNode)),
                  nodeSeq, i + 1, startNode)

EntryEdge(edge) ==
    [id |-> edgeId(edge.source, edge.target),
     source |-> edge.source,
     target |-> edge.target,
     animated |-> TRUE,
     label |-> edge.label,
     style |-> [stroke |-> BaseStroke]]

RECURSIVE EntryEdgesLastWins(_, _, _)
EntryEdgesLastWins(edgeMap, edgeSeq, i) ==
    IF i > Len(edgeSeq)
    THEN edgeMap
    ELSE EntryEdgesLastWins(MapSet(edgeMap, EntryEdge(edgeSeq[i])), edgeSeq, i + 1)

RECURSIVE EntryEdges(_, _, _)
EntryEdges(edgeMap, edgeSeq, i) ==
    IF i > Len(edgeSeq)
    THEN edgeMap
    ELSE EntryEdges(IF ~MapHas(edgeMap, edgeId(edgeSeq[i].source, edgeSeq[i].target))
                    THEN Append(edgeMap, EntryEdge(edgeSeq[i]))
                    ELSE edgeMap,
                    edgeSeq, i + 1)

buildGraphEntry(g) ==
    LET nodeMap == SetNodes(<<>>, g.nodes, 1, EntryStartNode(g.nodes))
        edgeMap == EntryEdges(<<>>, g.edges, 1)
    IN  [nodes |-> createLayout(nodeMap, edgeMap), edges |-> edgeMap]

----------------------------------------------------------------------------
(* src/App.tsx: buildGraph(graph), start node = graph.nodes[0]?.id.        *)
(* An input node is [id, relatedTestSuites]; an input edge is              *)
(* [source, target].                                                       *)

AppEdge(edge) ==
    [id |-> edgeId(edge.source, edge.target),
     source |-> edge.source,
     target |-> edge.target,
     animated |-> TRUE,
     style |-> [stroke |-> BaseStroke]]

RECURSIVE AppEdges(_, _, _)
AppEdges(edgeMap, edgeSeq, i) ==
    IF i > Len(edgeSeq)
    THEN edgeMap
    ELSE AppEdges(IF ~MapHas(edgeMap, edgeId(edgeSeq[i].source, edgeSeq[i].target))
                  THEN Append(edgeMap, AppEdge(edgeSeq[i]))
                  ELSE edgeMap,
                  edgeSeq, i + 1)

buildGraph(g) ==
    LET nodeMap == SetNodes(<<>>, g.nodes, 1, FirstNodeId(g.nodes))
        edgeMap == AppEdges(<<>>, g.edges, 1)
    IN  [nodes |-> createLayout(nodeMap, edgeMap), edges |-> edgeMap]

----------------------------------------------------------------------------
(* src/App.tsx: buildHighlightSet(path) and the highlight overlay.         *)

(* `if (next)`: path[index + 1] is undefined past the end, and the empty   *)
(* string is falsy.                                                        *)
Truthy(path, i) == i <= Len(path) /\ path[i] # ""

buildHighlightSet(path) ==
    [nodeIds |-> {path[i] : i \in DOMAIN path},
     edgeIds |-> {edgeId(path[i], path[i + 1]) :
                    i \in {j \in DOMAIN path : Truthy(path, j + 1)}}]

(* highlightedSuite ? buildHighlightSet(highlightedSuite.path) : null *)
highlightOf(suite) ==
    IF suite # Null THEN Some(buildHighlightSet(suite[1].path)) ELSE Null

OverlayNodeAtOrigin(node, hl) ==
    [node EXCEPT !.position = [x |-> 0, y |-> 0]]

OverlayNode(node, hl) ==
    [node EXCEPT !.className =
        node.className \o " " \o (IF node.id \in hl.nodeIds THEN RingClass ELSE "")]

(* strokeWidth is kept in tenths: 2.5 -> 25, 1.2 -> 12 *)
OverlayEdge(edge, hl) ==
    [edge EXCEPT !.style =
        [stroke |-> IF edge.id \in hl.edgeIds THEN BaseStroke ELSE DimStroke,
         strokeWidth |-> IF edge.id \in hl.edgeIds THEN 25 ELSE 12]]

displayNodes(base, highlight) ==
    IF highlight = Null
    THEN base
    ELSE [i \in DOMAIN base |-> OverlayNode(base[i], highlight[1])]

displayEdges(base, highlight) ==
    IF highlight = Null
    THEN base
    ELSE [i \in DOMAIN base |-> OverlayEdge(base[i], highlight[1])]

(* mockGraph.nodes.find((node) => node.id === selectedNodeId) ?? null *)
selectedNode ==
    LET hits == {i \in DOMAIN graph.nodes : Some(graph.nodes[i].id) = selectedNodeId}
    IN  IF variant # "app" \/ hits = {}
        THEN Null
        ELSE Some(graph.nodes[CHOOSE i \in hits : \A j \in hits : i <= j])

----------------------------------------------------------------------------
(* Inputs. *)

TS1 == [id |-> "TS-1", path |-> <<"a", "a->a">>]
TS2 == [id |-> "TS-2", path |-> <<"a", "">>]
TS3 == [id |-> "TS-3", path |-> <<"a->a", "a", "a->a">>]
TS4 == [id |-> "TS-4", path |-> <<>>]

(* The related test suites every node record of the app variant carries. *)
SuitesFor(id) ==
    CASE id = "a" -> <<TS1, TS2>>
      [] id = "a->a" -> <<TS3>>
      [] OTHER -> <<TS4>>

CasesInputs == BoundedSeq(BoundedSeq(Pages, MaxSteps), MaxCases)

EntryInputs ==
    [nodes : BoundedSeq([id : EntryIds, entryPoint : BOOLEAN], MaxNodes),
     edges : BoundedSeq([source : EntryIds, target : EntryIds, label : EdgeLabels],
                        MaxEdges)]

AppInputs ==
    [nodes : BoundedSeq({[id |-> i, relatedTestSuites |-> SuitesFor(i)] : i \in AppIds},
                        MaxNodes),
     edges : BoundedSeq([source : AppIds, target : AppIds], MaxEdges)]

NoGraph == [nodes |-> <<>>, edges |-> <<>>]

----------------------------------------------------------------------------
(* State machine. *)

Init ==
    /\ variant \in {"cases", "entry", "app"}
    /\ cases \in (IF variant = "cases" THEN CasesInputs ELSE {<<>>})
    /\ graph \in (CASE variant = "entry" -> EntryInputs
                    [] variant = "app" -> AppInputs
                    [] OTHER -> {NoGraph})
    /\ pc = "load"
    /\ baseNodes = <<>>
    /\ baseEdges = <<>>
    /\ selectedNodeId = Null
    /\ highlightedSuite = Null
    /\ nodes = <<>>
    /\ edges = <<>>

(* First render: useMemo(() => buildGraph(...), []) *)
Mount(built) ==
    /\ pc = "load"
    /\ pc' = "built"
    /\ baseNodes' = built.nodes
    /\ baseEdges' = built.edges
    /\ nodes' = displayNodes(built.nodes, highlightOf(highlightedSuite))
    /\ edges' = displayEdges(built.edges, highlightOf(highlightedSuite))
    /\ UNCHANGED <<variant, cases, graph, selectedNodeId, highlightedSuite>>

MountCases == variant = "cases" /\ Mount(buildGraphCases(cases))

MountEntry == variant = "entry" /\ Mount(buildGraphEntry(graph))

MountApp == variant = "app" /\ Mount(buildGraph(graph))

(* A state update of the app variant followed by the re-render. *)
Update(sel, suite) ==
    /\ selectedNodeId' = sel
    /\ highlightedSuite' = suite
    /\ nodes' = displayNodes(baseNodes, highlightOf(suite))
    /\ edges' = displayEdges(baseEdges, highlightOf(suite))
    /\ UNCHANGED <<variant, cases, graph, pc, baseNodes, baseEdges>>

handleNodeClickKeepsSuite ==
    /\ variant = "app" /\ pc = "built"
    /\ \E i \in DOMAIN nodes : Update(Some(nodes[i].id), highlightedSuite)

handleNodeClick ==
    /\ variant = "app" /\ pc = "built"
    /\ \E i \in DOMAIN nodes : Update(Some(nodes[i].id), Null)

handleCloseSidebarKeepsSuite ==
    /\ variant = "app" /\ pc = "built"
    /\ selectedNode # Null
    /\ Update(Null, highlightedSuite)

handleCloseSidebar ==
    /\ variant = "app" /\ pc = "built"
    /\ selectedNode # Null
    /\ Update(Null, Null)

onMouseEnter ==
    /\ variant = "app" /\ pc = "built"
    /\ selectedNode # Null
    /\ \E k \in DOMAIN selectedNode[1].relatedTestSuites :
          Update(selectedNodeId, Some(selectedNode[1].relatedTestSuites[k]))

onMouseLeave ==
    /\ variant = "app" /\ pc = "built"
    /\ selectedNode # Null
    /\ selectedNode[1].relatedTestSuites # <<>>
    /\ Update(selectedNodeId, Null)

Next ==
    \/ MountCases
    \/ MountEntry
    \/ MountApp
    \/ handleNodeClick
    \/ handleCloseSidebar
    \/ onMouseEnter
    \/ onMouseLeave

Spec == Init /\ [][Next]_vars

----------------------------------------------------------------------------
(* Reference notions the claims are stated with. *)

Built == pc = "built"

BaseNodeIds == {baseNodes[i].id : i \in DOMAIN baseNodes}
BaseEdgeIds == {baseEdges[i].id : i \in DOMAIN baseEdges}
BaseEdgePairs == {<<baseEdges[i].source, baseEdges[i].target>> : i \in DOMAIN baseEdges}
StartMarked == {i \in DOMAIN baseNodes : baseNodes[i].className = StartClass}

(* Transitions of a trace list: consecutive steps of one trace whose pages *)
(* differ.                                                                 *)
TracePairs(cs) ==
    UNION {{<<cs[c][i], cs[c][i + 1]>> :
              i \in {j \in 1..(Len(cs[c]) - 1) : cs[c][j] # cs[c][j + 1]}} :
           c \in DOMAIN cs}

(* Entries of an explicit edge list. *)
ListedPairs(g) == {<<g.edges[i].source, g.edges[i].target>> : i \in DOMAIN g.edges}

ObservedPairs == IF variant = "cases" THEN TracePairs(cases) ELSE ListedPairs(graph)

RECURSIVE Concat(_)
Concat(ss) ==
    IF ss = <<>> THEN <<>> ELSE Concat(SubSeq(ss, 1, Len(ss) - 1)) \o ss[Len(ss)]

RECURSIVE Distinct(_)
Distinct(seq) ==
    IF seq = <<>>
    THEN <<>>
    ELSE LET front == Distinct(SubSeq(seq, 1, Len(seq) - 1))
             last == seq[Len(seq)]
         IN  IF \E i \in DOMAIN front : front[i] = last
             THEN front
             ELSE Append(front, last)

(* The ids of the input in first-observation order. *)
InputIds ==
    IF variant = "cases"
    THEN Distinct(Concat(cases))
    ELSE Distinct([i \in DOMAIN graph.nodes |-> graph.nodes[i].id])

(* The start node the data model asks for: an explicitly flagged entry     *)
(* point first, else the first-encountered node.                           *)
ExpectedStart ==
    IF variant = "entry" /\ \E i \in DOMAIN graph.nodes : graph.nodes[i].entryPoint
    THEN LET flagged == {i \in DOMAIN graph.nodes : graph.nodes[i].entryPoint}
         IN  graph.nodes[CHOOSE i \in flagged : \A j \in flagged : i <= j].id
    ELSE InputIds[1]

----------------------------------------------------------------------------
(* C1: for every input of every builder the built edge list holds at most  *)
(* one edge per (source, target) pair, and every observed transition       *)
(* A -> B, however often it is observed, has exactly one edge with id      *)
(* "A->B".                                                                 *)
C1_EdgeDedup ==
    Built =>
        /\ \A i, j \in DOMAIN baseEdges :
              (/\ baseEdges[i].source = baseEdges[j].source
               /\ baseEdges[i].target = baseEdges[j].target) => i = j
        /\ \A p \in ObservedPairs :
              Cardinality({i \in DOMAIN baseEdges :
                             baseEdges[i].id = edgeId(p[1], p[2])}) = 1

(* The transition a -> b is observed in two different traces. *)
C1_Witness ==
    /\ Built /\ variant = "cases"
    /\ Len(cases) = 2
    /\ <<"a", "b">> \in TracePairs(<<cases[1]>>) \cap TracePairs(<<cases[2]>>)
    /\ "a->b" \in BaseEdgeIds

(* C2: the trace-list builder never emits an edge with source = target;    *)
(* two consecutive steps at one page give no edge for that pair.           *)
C2_NoSelfLoop ==
    (Built /\ variant = "cases") =>
        /\ \A i \in DOMAIN baseEdges : baseEdges[i].source # baseEdges[i].target
        /\ \A c \in DOMAIN cases : \A i \in 1..(Len(cases[c]) - 1) :
              cases[c][i] = cases[c][i + 1]
                  => edgeId(cases[c][i], cases[c][i]) \notin BaseEdgeIds

(* A trace stays on a page for two steps while another trace adds edges. *)
C2_Witness ==
    /\ Built /\ variant = "cases"
    /\ \E c \in DOMAIN cases :
          Len(cases[c]) = 2 /\ cases[c][1] = cases[c][2]
    /\ baseEdges # <<>>

(* C3: the trace-list builder returns the reference graph: one node per    *)
(* distinct page in first-observation order, and as edges exactly the      *)
(* pairs of consecutive steps of one trace whose pages differ.             *)
C3_ReferenceGraph ==
    (Built /\ variant = "cases") =>
        /\ [i \in DOMAIN baseNodes |-> baseNodes[i].id] = InputIds
        /\ BaseEdgePairs = TracePairs(cases)
        /\ Len(baseEdges) = Cardinality(TracePairs(cases))

(* C4: a non-empty built graph has exactly one node marked as the start    *)
(* node, the entry point or else the first-encountered node, for every     *)
(* builder.                                                                *)
C4_OneStart ==
    (Built /\ baseNodes # <<>>) =>
        /\ Cardinality(StartMarked) = 1
        /\ \A i \in StartMarked : baseNodes[i].id = ExpectedStart

(* C5: in the entry-point builder the start node is the first node in      *)
(* input order that declares an entry point, wherever it stands, and the   *)
(* first node of the list when none declares one.                          *)
C5_EntryPointStart ==
    (Built /\ variant = "entry" /\ graph.nodes # <<>>) =>
        {baseNodes[i].id : i \in StartMarked} = {ExpectedStart}

(* The flagged node is not the first node of the list. *)
C5_Witness ==
    /\ Built /\ variant = "entry"
    /\ Len(graph.nodes) = 2
    /\ graph.nodes[1].id # graph.nodes[2].id
    /\ ~graph.nodes[1].entryPoint /\ graph.nodes[2].entryPoint
    /\ baseNodes[2].className = StartClass

(* C6: in the explicit-graph builders every edge of the built graph has    *)
(* both endpoints among the built node ids; an edge naming an id that is   *)
(* not in the node list is dropped.                                        *)
C6_DanglingEdgesDropped ==
    (Built /\ variant \in {"entry", "app"}) =>
        \A i \in DOMAIN baseEdges :
            baseEdges[i].source \in BaseNodeIds /\ baseEdges[i].target \in BaseNodeIds

----------------------------------------------------------------------------
(* The highlight of the current render. *)
highlight == highlightOf(highlightedSuite)

Highlighting == Built /\ variant = "app" /\ highlightedSuite # Null

(* C7: the highlight set of a path is sound: its edge ids are ids of edges *)
(* of the graph and its node ids are ids of nodes of the graph.            *)
C7_HighlightSound ==
    Highlighting =>
        /\ highlight[1].edgeIds \subseteq BaseEdgeIds
        /\ highlight[1].nodeIds \subseteq BaseNodeIds

(* C8: the highlight set of a path is complete: every path element that is *)
(* a node of the graph is in nodeIds, and every consecutive pair of the    *)
(* path that is an edge of the graph has its edge id in edgeIds, for every *)
(* node id including the empty string; an empty path gives two empty sets  *)
(* and a path of one element gives no edge id.                             *)
C8_HighlightComplete ==
    Highlighting =>
        LET path == highlightedSuite[1].path
        IN  /\ \A i \in DOMAIN path :
                  path[i] \in BaseNodeIds => path[i] \in highlight[1].nodeIds
            /\ \A i \in 1..(Len(path) - 1) :
                  <<path[i], path[i + 1]>> \in BaseEdgePairs
                      => edgeId(path[i], path[i + 1]) \in highlight[1].edgeIds
            /\ Len(path) = 0 => highlight[1].nodeIds = {}
            /\ Len(path) <= 1 => highlight[1].edgeIds = {}

(* C9: applying a highlight changes neither the base graph nor its layout: *)
(* the displayed nodes are the base nodes in the same order with the same  *)
(* ids and positions, the displayed edges are the base edges in the same   *)
(* order with the same ids, sources and targets, the base lists are the    *)
(* lists that were built, and without a highlight the base graph is shown. *)
C9_HighlightKeepsBase ==
    (Built /\ variant = "app") =>
        /\ baseNodes = buildGraph(graph).nodes
        /\ baseEdges = buildGraph(graph).edges
        /\ DOMAIN nodes = DOMAIN baseNodes
        /\ \A i \in DOMAIN nodes :
              nodes[i].id = baseNodes[i].id /\ nodes[i].position = baseNodes[i].position
        /\ DOMAIN edges = DOMAIN baseEdges
        /\ \A i \in DOMAIN edges :
              /\ edges[i].id = baseEdges[i].id
              /\ edges[i].source = baseEdges[i].source
              /\ edges[i].target = baseEdges[i].target
        /\ highlightedSuite = Null => (nodes = baseNodes /\ edges = baseEdges)

(* A highlight is applied to a laid-out graph: one node away from the      *)
(* origin is ringed and one edge is drawn highlighted.                     *)
C9_Witness ==
    /\ Highlighting
    /\ \E i \in DOMAIN nodes :
          /\ nodes[i].className # baseNodes[i].className
          /\ nodes[i].id \in highlight[1].nodeIds
          /\ baseNodes[i].position # [x |-> 0, y |-> 0]
    /\ \E i \in DOMAIN edges : edges[i].style # baseEdges[i].style

(* C10: the explicit-graph builders never create a self-loop edge, also    *)
(* when the edge list holds an entry with source = target.                 *)
C10_ExplicitNoSelfLoop ==
    (Built /\ variant \in {"entry", "app"}) =>
        \A i \in DOMAIN baseEdges : baseEdges[i].source # baseEdges[i].target

----------------------------------------------------------------------------
(* Entries of the explicit edge list that share the (source, target) pair  *)
(* of entry k, and entries that share its edge id.                         *)
SamePair(g, k) ==
    {j \in DOMAIN g.edges :
        g.edges[j].source = g.edges[k].source /\ g.edges[j].target = g.edges[k].target}

SameId(g, id) ==
    {j \in DOMAIN g.edges : edgeId(g.edges[j].source, g.edges[j].target) = id}

Min(S) == CHOOSE m \in S : \A n \in S : m <= n

(* C11, as claimed: when several entries of the explicit edge list have    *)
(* the same (source, target) and different labels, the surviving edge      *)
(* carries the label of the last such entry.                               *)
C11_LastLabelWins ==
    (Built /\ variant = "entry") =>
        \A k \in DOMAIN graph.edges :
            \A i \in DOMAIN baseEdges :
                baseEdges[i].id = edgeId(graph.edges[k].source, graph.edges[k].target)
                    => baseEdges[i].label = graph.edges[Max(SamePair(graph, k))].label

(* C11, amended: every built edge carries the source, target and label of  *)
(* the first entry of the edge list that has its edge id, so among entries *)
(* with the same (source, target) the first label wins.                    *)
C11_FirstLabelWins ==
    (Built /\ variant = "entry") =>
        /\ \A i \in DOMAIN baseEdges :
              LET first == graph.edges[Min(SameId(graph, baseEdges[i].id))]
              IN  /\ baseEdges[i].label = first.label
                  /\ baseEdges[i].source = first.source
                  /\ baseEdges[i].target = first.target
        /\ \A k \in DOMAIN graph.edges :
              \E i \in DOMAIN baseEdges :
                  baseEdges[i].id = edgeId(graph.edges[k].source, graph.edges[k].target)

(* Two entries for a -> b with labels x then y; one edge survives. *)
C11_Witness ==
    /\ Built /\ variant = "entry"
    /\ Len(graph.edges) = 2
    /\ graph.edges[1] = [source |-> "a", target |-> "b", label |-> "x"]
    /\ graph.edges[2] = [source |-> "a", target |-> "b", label |-> "y"]
    /\ Len(baseEdges) = 1
    /\ baseEdges[1].label = "x"

----------------------------------------------------------------------------
(* The centres the layout library returns for the built graph. *)
Centre == dagreLayout(baseNodes, baseEdges)

EdgeEnds == {baseEdges[i].source : i \in DOMAIN baseEdges}
                \cup {baseEdges[i].target : i \in DOMAIN baseEdges}

(* C12: createLayout gives every node exactly one position: the laid-out   *)
(* list has the length, the ids and the order of the node list it was      *)
(* given (the distinct ids of the input in insertion order), nodes without *)
(* an edge included, and each position is the laid-out centre moved to the *)
(* top-left corner by half the node width and half the node height.        *)
C12_OnePositionEach ==
    Built =>
        /\ [i \in DOMAIN baseNodes |-> baseNodes[i].id] = InputIds
        /\ \A i, j \in DOMAIN baseNodes : baseNodes[i].id = baseNodes[j].id => i = j
        /\ \A i \in DOMAIN baseNodes :
              /\ baseNodes[i].position.x + nodeWidth \div 2 = Centre[i].x
              /\ baseNodes[i].position.y + nodeHeight \div 2 = Centre[i].y

(* Two nodes are laid out, one of them without any edge. *)
C12_Witness ==
    /\ Built
    /\ Len(baseNodes) = 2
    /\ baseEdges # <<>>
    /\ baseNodes[2].id \notin EdgeEnds
    /\ baseNodes[1].position # baseNodes[2].position

----------------------------------------------------------------------------
(* v is reached from u along at most k built edges. *)
RECURSIVE Reaches(_, _, _)
Reaches(u, v, k) ==
    /\ k > 0
    /\ \E i \in DOMAIN baseEdges :
          /\ baseEdges[i].source = u
          /\ (baseEdges[i].target = v \/ Reaches(baseEdges[i].target, v, k - 1))

Acyclic == \A u \in EdgeEnds : ~Reaches(u, u, Cardinality(EdgeEnds))

(* C13: when the edges of the built graph form no cycle the layout is      *)
(* rank-monotone left to right: for every edge (u, v) the rank of v is     *)
(* greater than the rank of u, and the x position given to v is greater    *)
(* than the x position given to u.                                         *)
C13_RankMonotone ==
    (Built /\ Acyclic) =>
        \A e \in DOMAIN baseEdges :
            /\ dagreRank(baseNodes, baseEdges, baseEdges[e].target)
                 > dagreRank(baseNodes, baseEdges, baseEdges[e].source)
            /\ \A i, j \in DOMAIN baseNodes :
                  (baseNodes[i].id = baseEdges[e].source /\ baseNodes[j].id = baseEdges[e].target)
                      => baseNodes[j].position.x > baseNodes[i].position.x

(* An acyclic graph of two edges, one of them between two laid-out nodes. *)
C13_Witness ==
    /\ Built /\ Acyclic
    /\ Len(baseEdges) = 2
    /\ \E e \in DOMAIN baseEdges : \E i, j \in DOMAIN baseNodes :
          /\ baseNodes[i].id = baseEdges[e].source
          /\ baseNodes[j].id = baseEdges[e].target
          /\ baseNodes[j].position.x > baseNodes[i].position.x

----------------------------------------------------------------------------
Dimmed == [stroke |-> DimStroke, strokeWidth |-> 12]

(* What is displayed in a state: the base graph when no suite is           *)
(* highlighted; with a highlighted suite of empty path every edge dimmed,  *)
(* which is not the base drawing of that edge.                             *)
C14_Display ==
    (Built /\ variant = "app") =>
        /\ highlightedSuite = Null => (nodes = baseNodes /\ edges = baseEdges)
        /\ (highlightedSuite # Null /\ highlightedSuite[1].path = <<>>) =>
              /\ DOMAIN edges = DOMAIN baseEdges
              /\ \A e \in DOMAIN edges :
                    edges[e].style = Dimmed /\ edges[e] # baseEdges[e]

(* What each handler does to the selection and the highlighted suite. *)
C14_Handlers ==
    /\ handleNodeClick =>
          /\ \E i \in DOMAIN nodes : selectedNodeId' = Some(nodes[i].id)
          /\ highlightedSuite' = Null
    /\ handleCloseSidebar => (selectedNodeId' = Null /\ highlightedSuite' = Null)
    /\ onMouseEnter =>
          /\ selectedNodeId' = selectedNodeId
          /\ \E k \in DOMAIN selectedNode[1].relatedTestSuites :
                highlightedSuite' = Some(selectedNode[1].relatedTestSuites[k])
    /\ onMouseLeave => (selectedNodeId' = selectedNodeId /\ highlightedSuite' = Null)

(* C14: over any sequence of node clicks, sidebar closes and mouse         *)
(* enter/leave events, a click selects the clicked node and clears the     *)
(* highlighted suite, a close clears both, a mouse enter highlights the    *)
(* hovered suite and a mouse leave clears it; whenever no suite is         *)
(* highlighted the base nodes and edges are displayed, unlike a            *)
(* highlighted suite with an empty path, where every edge is dimmed.       *)
C14_SelectionLifecycle == [][C14_Handlers]_vars /\ []C14_Display

(* The suite with the empty path is highlighted over a graph with edges. *)
C14_Witness ==
    /\ Highlighting
    /\ highlightedSuite[1].path = <<>>
    /\ edges # <<>>
    /\ \A e \in DOMAIN edges : edges[e].style = Dimmed

----------------------------------------------------------------------------
(* C15: the edge id source + "->" + target identifies the pair: two        *)
(* different observed (source, target) pairs never get the same id, so no  *)
(* builder collapses two distinct transitions into one edge, and an edge   *)
(* drawn highlighted is the edge between two consecutive path elements;    *)
(* also for ids that contain "->".                                         *)
C15_EdgeIdIdentifiesPair ==
    Built =>
        /\ \A p, q \in ObservedPairs :
              edgeId(p[1], p[2]) = edgeId(q[1], q[2]) => p = q
        /\ ObservedPairs \subseteq BaseEdgePairs
        /\ Highlighting =>
              LET path == highlightedSuite[1].path
              IN  \A e \in DOMAIN edges :
                      edges[e].style.stroke = BaseStroke =>
                          \E i \in 1..(Len(path) - 1) :
                              /\ path[i] = edges[e].source
                              /\ path[i + 1] = edges[e].target

(* C16: in the app variant a suite is highlighted only while a node is     *)
(* selected, the highlighted suite is one of the related test suites of    *)
(* the selected node, and a selected id is the id of a node of the graph.  *)
C16_HighlightWithinSelection ==
    variant = "app" =>
        /\ highlightedSuite # Null =>
              /\ selectedNodeId # Null
              /\ selectedNode # Null
              /\ \E k \in DOMAIN selectedNode[1].relatedTestSuites :
                    selectedNode[1].relatedTestSuites[k] = highlightedSuite[1]
        /\ selectedNodeId # Null =>
              /\ selectedNodeId[1] \in {graph.nodes[i].id : i \in DOMAIN graph.nodes}
              /\ selectedNodeId[1] \in BaseNodeIds

(* The second suite of the selected node is highlighted while the graph    *)
(* holds another node as well.                                             *)
C16_Witness ==
    /\ Highlighting
    /\ selectedNodeId = Some("a")
    /\ highlightedSuite = Some(TS2)
    /\ Len(baseNodes) = 2

====
